---- MODULE Spec2Model ----
(***************************************************************************)
(* Two-phase extraction pipeline of the Gundert portal scraper:            *)
(*   core/cache.py            RawContentCache (blob files + metadata.json) *)
(*   core/download_phase.py   DownloadWorker, DownloadPhase                *)
(*   core/processing_phase.py ProcessingWorker, ProcessingPhase            *)
(*   core/two_phase_scraper.py TwoPhaseContentScraper.extract_book         *)
(* The file system of the cache directory, the remote site and the         *)
(* rendering resource are the environment; their answers are the inputs    *)
(* the actions draw with \E.                                               *)
(***************************************************************************)
EXTENDS Integers, Sequences, FiniteSets, TLC

\* ------------------------------------------------------------------------
\* Bounds
\* ------------------------------------------------------------------------
MaxPage == 2
MaxIndex == 1
MaxOps == 2
MaxWorkers == 2
MaxThreads == 2

Pages == 1..MaxPage
Tabs == {"transcript", "view"}

\* ------------------------------------------------------------------------
\* Book identifiers.  A book id is a string, modelled as the tuple of its
\* characters, so that the directory name is computed as the code does.
\* ------------------------------------------------------------------------
BookP == <<"G", "a", "1">>
BookS == <<"G", "a", "2">>
BookIds == {BookP, BookS}

Identifiers ==
    { [book_id |-> BookP, portal_type |-> "gundert_portal"],
      [book_id |-> BookP, portal_type |-> "unknown"],
      [book_id |-> BookS, portal_type |-> "opendigi"] }

SafeChars == {"G", "a", "1", "2", "_", "-", "."}

IsSafeChar(c) == c \in SafeChars

\* RawContentCache.get_book_cache_dir: keep alphanumerics and "_-."
get_book_cache_dir(book_id) == SelectSeq(book_id, IsSafeChar)

Dirs == { get_book_cache_dir(b) : b \in BookIds }

\* "Ga1/": a second id that BookIdentifier accepts (its patterns are
\* matched against a prefix) and whose directory is the one of "Ga1"
BookAlias == <<"G", "a", "1", "/">>

AnyBookIds == BookIds \cup {BookAlias}

\* ------------------------------------------------------------------------
\* Documents (raw HTML).  A plain document is the page the paginated site
\* serves for one (page, tab); a single-page-application document carries
\* client-routing markers and a data-pages index.
\* ------------------------------------------------------------------------
PlainDoc(p, t) == [kind |-> "plain", page |-> p, tab |-> t, index |-> {}]
SpaDoc(S)      == [kind |-> "spa", page |-> 0, tab |-> "", index |-> S]
NoFile         == [kind |-> "none", page |-> 0, tab |-> "", index |-> {}]

PlainDocs == { PlainDoc(p, t) : p \in Pages, t \in Tabs }
SpaDocs   == { SpaDoc(S) : S \in SUBSET (1..MaxIndex) }
Docs      == PlainDocs \cup SpaDocs

\* hashlib.md5(content).hexdigest(): a digest, distinct for distinct documents
md5(d) == <<"md5", d>>

\* f"{page_number}_{tab_type}" and str(page_num), as token tuples
ChecksumKey(p, t) == <<p, "_", t>>
PageKey(p) == <<p>>

\* f"page_{page_number:04d}_{tab_type}.html" inside the book directory
FilePath(book_id, p, t) == <<get_book_cache_dir(book_id), p, t>>

FilePaths == { <<d, p, t>> : d \in Dirs, p \in Pages, t \in Tabs }

\* ------------------------------------------------------------------------
\* Small helpers
\* ------------------------------------------------------------------------
Range(s) == { s[i] : i \in 1..Len(s) }

MaxOf(a, b) == IF a >= b THEN a ELSE b

MinOf(a, b) == IF a <= b THEN a ELSE b

RECURSIVE SetMax(_)
SetMax(S) ==
    IF S = {} THEN 0
    ELSE LET x == CHOOSE y \in S : TRUE
             m == SetMax(S \ {x})
         IN IF x >= m THEN x ELSE m

\* insertion into an ascending list (one step of list.sort on an
\* already sorted list with one appended element)
RECURSIVE InsertSorted(_, _)
InsertSorted(s, x) ==
    IF s = <<>> THEN <<x>>
    ELSE IF x < Head(s) THEN <<x>> \o s
    ELSE <<Head(s)>> \o InsertSorted(Tail(s), x)

\* list.sort(): ascending order
RECURSIVE SortAscending(_)
SortAscending(s) ==
    IF s = <<>> THEN <<>>
    ELSE InsertSorted(SortAscending(Tail(s)), Head(s))

\* list(range(a, b + 1))
RECURSIVE RangeList(_, _)
RangeList(a, b) ==
    IF a > b THEN <<>> ELSE <<a>> \o RangeList(a + 1, b)

\* dict assignment d[k] = v
Put(f, k, v) == [x \in (DOMAIN f) \cup {k} |-> IF x = k THEN v ELSE f[x]]

EmptyDict == [x \in {} |-> 0]

\* ------------------------------------------------------------------------
\* CacheMetadata and the metadata.json file of one book directory
\* ------------------------------------------------------------------------
\* CacheMetadata.__init__
CacheMetadata(portal_type) ==
    [exists |-> TRUE, portal_type |-> portal_type, page_count |-> 0,
     pages_cached |-> <<>>, checksums |-> EmptyDict]

\* no metadata.json in the directory
NoMeta ==
    [exists |-> FALSE, portal_type |-> "", page_count |-> 0,
     pages_cached |-> <<>>, checksums |-> EmptyDict]

\* the cache directory tree: c.files[path] is a blob or NoFile,
\* c.metadata[dir] is the metadata.json of the directory or NoMeta
EmptyCache ==
    [files |-> [f \in FilePaths |-> NoFile],
     metadata |-> [d \in Dirs |-> NoMeta]]

\* RawContentCache.is_cached
is_cached(c, book_id) == c.metadata[get_book_cache_dir(book_id)].exists

\* load_page_content that leaves tab_type at its default, "transcript"
load_page_content_default_tab(c, book_id, p, t) ==
    c.files[FilePath(book_id, p, "transcript")]

\* RawContentCache.load_page_content; NoFile stands for None
load_page_content(c, book_id, p, t) == c.files[FilePath(book_id, p, t)]

\* RawContentCache.get_cached_pages
get_cached_pages(c, book_id) ==
    IF ~is_cached(c, book_id) THEN <<>>
    ELSE c.metadata[get_book_cache_dir(book_id)].pages_cached

\* an _update_metadata that appends the page number and does not sort
update_metadata_no_sort(c, book_id, p, t, checksum) ==
    LET dir == get_book_cache_dir(book_id)
        m   == IF c.metadata[dir].exists THEN c.metadata[dir]
               ELSE CacheMetadata("unknown")
        pcd == IF p \in Range(m.pages_cached) THEN m.pages_cached
               ELSE Append(m.pages_cached, p)
        m2  == [m EXCEPT !.pages_cached = pcd,
                         !.checksums = Put(m.checksums, ChecksumKey(p, t), checksum),
                         !.page_count = MaxOf(m.page_count, p)]
    IN [c EXCEPT !.metadata[dir] = m2]

\* RawContentCache._update_metadata: read-modify-write of metadata.json
update_metadata(c, book_id, p, t, checksum) ==
    LET dir == get_book_cache_dir(book_id)
        m   == IF c.metadata[dir].exists THEN c.metadata[dir]
               ELSE CacheMetadata("unknown")
        pcd == IF p \in Range(m.pages_cached) THEN m.pages_cached
               ELSE SortAscending(Append(m.pages_cached, p))
        m2  == [m EXCEPT !.pages_cached = pcd,
                         !.checksums = Put(m.checksums, ChecksumKey(p, t), checksum),
                         !.page_count = MaxOf(m.page_count, p)]
    IN [c EXCEPT !.metadata[dir] = m2]

\* outcomes of the disk during one save_page_content:
\*   "ok"        every write succeeds
\*   "blob_fail" creating the directory or writing the blob raises
\*   "meta_fail" the blob is written, the metadata write raises
IOOutcomes == {"ok", "blob_fail", "meta_fail"}

\* RawContentCache.save_page_content: new cache and return value
save_page_content(c, book_id, p, d, t, io) ==
    IF io = "blob_fail" THEN [cache |-> c, ret |-> FALSE]
    ELSE LET c1 == [c EXCEPT !.files[FilePath(book_id, p, t)] = d]
         IN IF io = "meta_fail" THEN [cache |-> c1, ret |-> TRUE]
            ELSE [cache |-> update_metadata(c1, book_id, p, t, md5(d)),
                  ret |-> TRUE]

\* RawContentCache.initialize_metadata: overwrite metadata.json with a
\* fresh record
initialize_metadata(c, book_id, portal_type) ==
    [c EXCEPT !.metadata[get_book_cache_dir(book_id)] = CacheMetadata(portal_type)]

\* RawContentCache.clear_cache: shutil.rmtree of the book directory
clear_cache(c, book_id) ==
    LET dir == get_book_cache_dir(book_id)
    IN [files |-> [f \in FilePaths |-> IF f[1] = dir THEN NoFile ELSE c.files[f]],
        metadata |-> [c.metadata EXCEPT ![dir] = NoMeta]]

Issue(kind, p) == [issue |-> kind, page |-> p]

\* the loop of validate_cache over pages_cached[i..]
RECURSIVE ValidateFrom(_, _, _, _)
ValidateFrom(c, book_id, pcd, i) ==
    IF i > Len(pcd) THEN <<>>
    ELSE LET p    == pcd[i]
             m    == c.metadata[get_book_cache_dir(book_id)]
             blob == c.files[FilePath(book_id, p, "transcript")]
             rest == ValidateFrom(c, book_id, pcd, i + 1)
         IN IF blob = NoFile
            THEN <<Issue("file missing", p)>> \o rest
            ELSE IF PageKey(p) \in DOMAIN m.checksums
                    /\ md5(blob) # m.checksums[PageKey(p)]
                 THEN <<Issue("checksum mismatch", p)>> \o rest
                 ELSE rest

\* RawContentCache.validate_cache: (is_valid, issues)
validate_cache(c, book_id) ==
    IF ~is_cached(c, book_id)
    THEN [valid |-> FALSE, issues |-> <<Issue("Cache not found", 0)>>]
    ELSE LET iss == ValidateFrom(c, book_id,
                        c.metadata[get_book_cache_dir(book_id)].pages_cached, 1)
         IN [valid |-> Len(iss) = 0, issues |-> iss]

\* check_cache_status that never reports a cached book valid
check_cache_status_never_valid(c, book_id) ==
    IF ~is_cached(c, book_id)
    THEN [is_cached |-> FALSE, pages_cached |-> <<>>, cache_valid |-> FALSE]
    ELSE [is_cached |-> TRUE,
          pages_cached |-> c.metadata[get_book_cache_dir(book_id)].pages_cached,
          cache_valid |-> FALSE]

\* DownloadPhase.check_cache_status
check_cache_status(c, book_id) ==
    IF ~is_cached(c, book_id)
    THEN [is_cached |-> FALSE, pages_cached |-> <<>>, cache_valid |-> FALSE]
    ELSE [is_cached |-> TRUE,
          pages_cached |-> c.metadata[get_book_cache_dir(book_id)].pages_cached,
          cache_valid |-> validate_cache(c, book_id).valid]

\* ------------------------------------------------------------------------
\* State
\* ------------------------------------------------------------------------
VARIABLES
    cache,   \* the cache directory: blob files and metadata.json per book
    saved,   \* per file path, the content of the last save_page_content
             \* that returned True (NoFile: none since the last clear)
    pc,      \* position of the running call ("idle": no call running)
    call,    \* the running call, or the last one when idle
    io,      \* what the running call did to its collaborators
    dl,      \* locals of download_book
    dlres,   \* what download_book returned or raised
    proc,    \* locals of process_cached_book
    out,     \* what extract_book returned or raised
    ops,     \* number of top-level calls made
    savers   \* per thread, the save_page_content call it is running

vars == <<cache, saved, pc, call, io, dl, dlres, proc, out, ops, savers>>

None == 0

\* get_page_count() of the remote site, when it answers
SitePageCount == MaxPage

\* the URL _execute_spa_extraction loads, whatever book is processed
HardCodedBook == <<"G", "a", "X", "X", "X", "I", "V", "5", "a">>

NoIdent == [book_id |-> <<>>, portal_type |-> ""]

NoCall ==
    [op |-> "none", ident |-> NoIdent, start_page |-> 0, end_page |-> None,
     force_redownload |-> FALSE, skip_download |-> FALSE, repeat |-> FALSE,
     page |-> 0, tab |-> "", doc |-> NoFile, ret |-> FALSE, pre_valid |-> FALSE,
     pre_cached |-> FALSE, max_workers |-> 0]

NoIO ==
    [sessions_opened |-> 0, sessions_closed |-> 0, navs |-> <<>>,
     writes |-> 0, remote |-> {}]

\* DownloadProgress.__init__ / ProcessingProgress.__init__
Progress(total) ==
    [total_pages |-> total, completed_pages |-> 0, failed_pages |-> <<>>,
     current_page |-> 0]

\* DownloadProgress.update / ProcessingProgress.update
ProgressUpdate(pr, page_number, success) ==
    [pr EXCEPT !.completed_pages = @ + 1,
               !.current_page = page_number,
               !.failed_pages = IF success THEN @ ELSE Append(@, page_number)]

NoDl ==
    [pages_to_download |-> <<>>, i |-> 1, total_pages |-> 0,
     download_results |-> <<>>, failed_pages |-> <<>>,
     progress |-> Progress(0), callbacks |-> <<>>, complete_html |-> NoFile,
     timeouts |-> {}]

Rate(num, den) == IF den > 0 THEN [num |-> num * 100, den |-> den]
                  ELSE [num |-> 0, den |-> 1]

NoStats ==
    [total_pages |-> 0, successful_pages |-> 0, failed_pages |-> 0,
     success_rate |-> Rate(0, 0), failed_page_numbers |-> <<>>]

NoDlRes ==
    [status |-> "none", from_cache |-> FALSE, success |-> FALSE,
     exception |-> "", operation |-> "", statistics |-> NoStats]

\* a pool thread that is not inside process_page; driver is the local
\* variable of _execute_spa_extraction, 0 for None
NoWorker ==
    [pc |-> "idle", tab |-> "", driver |-> 0,
     render |-> [t \in Tabs |-> "unavailable"]]

\* rendering, raised and sessions record what happened to the workers:
\* the answer of the rendering resource per page and tab, the pages whose
\* process_page body raised, the rendering sessions ever opened
NoProc ==
    [cached_pages |-> <<>>, tasks |-> EmptyDict, results |-> EmptyDict,
     processed_pages |-> <<>>, failed_pages |-> <<>>,
     progress |-> Progress(0), callbacks |-> <<>>,
     workers |-> EmptyDict, sessions |-> <<>>,
     rendering |-> EmptyDict, raised |-> {}]

NoOut ==
    [status |-> "none", operation |-> "", pages |-> <<>>,
     pages_processed |-> 0, success_rate |-> Rate(0, 0), errors |-> <<>>,
     has_download_statistics |-> FALSE, download_statistics |-> NoStats,
     used_cache |-> "unset"]

\* the threads of a program that shares one RawContentCache
Threads == 1..MaxThreads

\* a thread that is not inside save_page_content
NoSaver ==
    [pc |-> "idle", book_id |-> <<>>, page |-> 0, tab |-> "", doc |-> NoFile,
     metadata |-> NoMeta, ret |-> FALSE]

\* ProcessingPhase.__init__: the widths of the worker pool
Widths == 1..MaxWorkers

Init ==
    /\ cache = EmptyCache
    /\ saved = [f \in FilePaths |-> NoFile]
    /\ pc = "idle"
    /\ call = NoCall
    /\ io = NoIO
    /\ dl = NoDl
    /\ dlres = NoDlRes
    /\ proc = NoProc
    /\ out = NoOut
    /\ ops = 0
    /\ savers = [th \in Threads |-> NoSaver]

\* ------------------------------------------------------------------------
\* One save_page_content call made inside an action: w carries the cache,
\* the record of successful saves and the number of file writes so far
\* ------------------------------------------------------------------------
World(c, sv, n) == [cache |-> c, saved |-> sv, writes |-> n, ret |-> FALSE]

Save(w, book_id, p, d, t, o) ==
    LET r == save_page_content(w.cache, book_id, p, d, t, o)
    IN [cache |-> r.cache,
        saved |-> IF r.ret THEN [w.saved EXCEPT ![FilePath(book_id, p, t)] = d]
                  ELSE w.saved,
        writes |-> w.writes + (CASE o = "ok" -> 2 [] o = "meta_fail" -> 1
                                 [] OTHER -> 0),
        ret |-> r.ret]

\* ------------------------------------------------------------------------
\* Cache API called directly
\* ------------------------------------------------------------------------
\* RawContentCache.save_page_content(book_id, page_number, html_content, tab_type)
SavePageContent(ids, ios) ==
    /\ pc = "idle"
    /\ ops < MaxOps
    /\ \E b \in ids, p \in Pages, t \in Tabs, d \in Docs, o \in ios :
         LET w == Save(World(cache, saved, 0), b, p, d, t, o)
         IN /\ cache' = w.cache
            /\ saved' = w.saved
            /\ call' = [NoCall EXCEPT !.op = "save_page_content",
                          !.ident = [book_id |-> b, portal_type |-> ""],
                          !.page = p, !.tab = t, !.doc = d, !.ret = w.ret,
                          !.pre_valid = (~is_cached(cache, b)
                                           \/ validate_cache(cache, b).valid)]
            /\ io' = [NoIO EXCEPT !.writes = w.writes]
    /\ dl' = NoDl
    /\ dlres' = NoDlRes
    /\ proc' = NoProc
    /\ out' = NoOut
    /\ ops' = ops + 1
    /\ UNCHANGED <<pc, savers>>

\* RawContentCache.clear_cache(book_id)
ClearCache(ids) ==
    /\ pc = "idle"
    /\ ops < MaxOps
    /\ \E b \in ids :
         /\ cache' = clear_cache(cache, b)
         /\ saved' = [f \in FilePaths |->
                        IF f[1] = get_book_cache_dir(b) THEN NoFile ELSE saved[f]]
         /\ call' = [NoCall EXCEPT !.op = "clear_cache",
                       !.ident = [book_id |-> b, portal_type |-> ""],
                       !.ret = TRUE]
    /\ io' = NoIO
    /\ dl' = NoDl
    /\ dlres' = NoDlRes
    /\ proc' = NoProc
    /\ out' = NoOut
    /\ ops' = ops + 1
    /\ UNCHANGED <<pc, savers>>

\* RawContentCache.initialize_metadata(book_id, portal_type, url)
InitializeMetadata(ids) ==
    /\ pc = "idle"
    /\ ops < MaxOps
    /\ \E b \in ids, portal \in {"gundert_portal", "opendigi", "unknown"} :
         /\ cache' = initialize_metadata(cache, b, portal)
         /\ call' = [NoCall EXCEPT !.op = "initialize_metadata",
                       !.ident = [book_id |-> b, portal_type |-> portal],
                       !.ret = TRUE,
                       !.pre_cached = is_cached(cache, b)]
    /\ io' = [NoIO EXCEPT !.writes = 1]
    /\ dl' = NoDl
    /\ dlres' = NoDlRes
    /\ proc' = NoProc
    /\ out' = NoOut
    /\ ops' = ops + 1
    /\ UNCHANGED <<saved, pc, savers>>

\* ------------------------------------------------------------------------
\* Download phase
\* ------------------------------------------------------------------------
\* where control goes when download_book returns or raises
AfterDownload == IF call.op = "extract_book" THEN "extract_after_download"
                 ELSE "idle"

Raised(exception, operation) ==
    [NoDlRes EXCEPT !.status = "raised", !.exception = exception,
                    !.operation = operation]

\* DownloadPhase.download_book is called directly
DownloadBookCall ==
    /\ pc = "idle"
    /\ ops < MaxOps
    /\ \E id \in Identifiers, sp \in Pages, ep \in Pages \cup {None},
          force \in BOOLEAN :
         call' = [NoCall EXCEPT !.op = "download_book", !.ident = id,
                    !.start_page = sp, !.end_page = ep,
                    !.force_redownload = force,
                    !.pre_cached = is_cached(cache, id.book_id),
                    !.repeat = (/\ call.op = "download_book"
                                /\ dlres.status = "returned"
                                /\ call.ident = id
                                /\ call.start_page = sp
                                /\ call.end_page = ep
                                /\ call.force_redownload = force)]
    /\ pc' = "download_start"
    /\ io' = NoIO
    /\ dl' = NoDl
    /\ dlres' = NoDlRes
    /\ proc' = NoProc
    /\ out' = NoOut
    /\ ops' = ops + 1
    /\ UNCHANGED <<cache, saved, savers>>

\* download_book up to the download loop: cache shortcut, metadata
\* initialisation, browsing session, page range
DownloadStart ==
    /\ pc = "download_start"
    /\ \E session_ok \in BOOLEAN, count_ok \in BOOLEAN :
         LET id == call.ident
             b  == id.book_id
             st == check_cache_status(cache, b)
         IN IF st.is_cached /\ st.cache_valid /\ ~call.force_redownload
            THEN /\ dlres' = [NoDlRes EXCEPT !.status = "returned",
                                !.from_cache = TRUE, !.success = TRUE]
                 /\ pc' = AfterDownload
                 /\ UNCHANGED <<cache, io, dl>>
            ELSE /\ cache' = initialize_metadata(cache, b, id.portal_type)
                 /\ IF id.portal_type \notin {"gundert_portal", "opendigi"}
                    THEN \* generate_book_url raises ValidationError
                         /\ dlres' = Raised("ValidationError", "")
                         /\ pc' = AfterDownload
                         /\ io' = [io EXCEPT !.writes = @ + 1]
                         /\ UNCHANGED dl
                    ELSE IF ~session_ok
                    THEN \* GundertPortalConnector.__enter__ raises
                         /\ dlres' = Raised("ConnectionError", "")
                         /\ pc' = AfterDownload
                         /\ io' = [io EXCEPT !.writes = @ + 1]
                         /\ UNCHANGED dl
                    ELSE IF call.end_page = None /\ ~count_ok
                    THEN \* get_page_count raises inside the try
                         /\ dlres' = Raised("ExtractionError", "download phase")
                         /\ pc' = AfterDownload
                         /\ io' = [io EXCEPT !.writes = @ + 1,
                                     !.sessions_opened = @ + 1,
                                     !.sessions_closed = @ + 1,
                                     !.navs = Append(@, <<0, "book">>)]
                         /\ UNCHANGED dl
                    ELSE LET total == IF call.end_page = None THEN SitePageCount
                                      ELSE call.end_page
                             ep    == IF call.end_page = None THEN total
                                      ELSE MinOf(call.end_page, total)
                             pages == RangeList(call.start_page, ep)
                         IN /\ dl' = [NoDl EXCEPT !.pages_to_download = pages,
                                        !.total_pages = total,
                                        !.progress = Progress(Len(pages))]
                            /\ io' = [io EXCEPT !.writes = @ + 1,
                                        !.sessions_opened = @ + 1,
                                        !.navs = IF call.end_page = None
                                                 THEN Append(@, <<0, "book">>)
                                                 ELSE @]
                            /\ dlres' = dlres
                            /\ pc' = IF id.portal_type = "opendigi"
                                     THEN "download_spa"
                                     ELSE IF pages = <<>> THEN "download_finish"
                                     ELSE "download_pages"
    /\ UNCHANGED <<saved, call, proc, out, ops, savers>>

\* how navigate, wait, read the source end for one tab:
\*   "loaded"   wait_for_content_load returns True
\*   "timeout"  wait_for_content_load times out and returns False
\*   "raised"   one of the three raises
FetchOutcomes == {"loaded", "timeout", "raised"}

\* DownloadWorker.download_page for one tab: navigate, wait, read the
\* source and save it; the value wait_for_content_load returns is not
\* looked at
DownloadTab(r, book_id, p, t, fetch, o) ==
    IF fetch = "raised" THEN [w |-> r.w, tabs |-> r.tabs]
    ELSE LET w2 == Save(r.w, book_id, p, PlainDoc(p, t), t, o)
         IN [w |-> w2, tabs |-> IF w2.ret THEN Append(r.tabs, t) ELSE r.tabs]

\* DownloadWorker.download_page
download_page(w, book_id, p, fetch, iof) ==
    LET r1 == DownloadTab([w |-> w, tabs |-> <<>>], book_id, p, "transcript",
                          fetch["transcript"], iof["transcript"])
        r2 == DownloadTab(r1, book_id, p, "view", fetch["view"], iof["view"])
    IN [w |-> r2.w,
        result |-> [page_number |-> p, success |-> r2.tabs # <<>>,
                    tabs_downloaded |-> r2.tabs]]

\* a download loop that a failed page ends
DownloadPage_stop_on_failure(ios, fetches) ==
    /\ pc = "download_pages"
    /\ dl.i <= Len(dl.pages_to_download)
    /\ \E fetch \in [Tabs -> fetches], iof \in [Tabs -> ios] :
         LET p == dl.pages_to_download[dl.i]
             r == download_page(World(cache, saved, io.writes),
                                call.ident.book_id, p, fetch, iof)
         IN /\ cache' = r.w.cache
            /\ saved' = r.w.saved
            /\ io' = [io EXCEPT !.writes = r.w.writes,
                        !.navs = @ \o <<(<<p, "transcript">>), (<<p, "view">>)>>]
            /\ dl' = [dl EXCEPT
                        !.download_results = Append(@, r.result),
                        !.progress = ProgressUpdate(@, p, r.result.success),
                        !.timeouts = @ \cup { <<p, t>> : t \in
                            { x \in Tabs : fetch[x] = "timeout" } },
                        !.i = @ + 1]
            /\ pc' = IF dl.i = Len(dl.pages_to_download) \/ ~r.result.success
                     THEN "download_finish" ELSE "download_pages"
    /\ UNCHANGED <<call, dlres, proc, out, ops, savers>>

\* one iteration of the sequential loop of download_book
DownloadPage(ios, fetches) ==
    /\ pc = "download_pages"
    /\ dl.i <= Len(dl.pages_to_download)
    /\ \E fetch \in [Tabs -> fetches], iof \in [Tabs -> ios] :
         LET p == dl.pages_to_download[dl.i]
             r == download_page(World(cache, saved, io.writes),
                                call.ident.book_id, p, fetch, iof)
         IN /\ cache' = r.w.cache
            /\ saved' = r.w.saved
            /\ io' = [io EXCEPT !.writes = r.w.writes,
                        !.navs = @ \o <<(<<p, "transcript">>), (<<p, "view">>)>>]
            /\ dl' = [dl EXCEPT
                        !.download_results = Append(@, r.result),
                        !.progress = ProgressUpdate(@, p, r.result.success),
                        !.timeouts = @ \cup { <<p, t>> : t \in
                            { x \in Tabs : fetch[x] = "timeout" } },
                        !.i = @ + 1]
    /\ pc' = IF dl.i = Len(dl.pages_to_download) THEN "download_finish"
             ELSE "download_pages"
    /\ UNCHANGED <<call, dlres, proc, out, ops, savers>>

\* DownloadWorker._parse_spa_page_structure: the page numbers of the
\* data-pages attributes
parse_spa_page_structure(doc) == doc.index

\* the loop of download_complete_book over requested_pages[i..]
RECURSIVE SpaLoop(_, _, _, _, _, _, _)
SpaLoop(acc, book_id, requested, i, max_available_page, doc, iof) ==
    IF i > Len(requested) THEN acc
    ELSE LET p == requested[i]
         IN IF p > max_available_page
            THEN SpaLoop([acc EXCEPT
                            !.failed_pages = Append(@, p),
                            !.page_results = Append(@,
                                [page_number |-> p, success |-> FALSE,
                                 tabs_downloaded |-> <<>>])],
                         book_id, requested, i + 1, max_available_page, doc, iof)
            ELSE LET w1 == Save(acc.w, book_id, p, doc, "transcript",
                                iof[<<p, "transcript">>])
                     t1 == IF w1.ret THEN <<"transcript">> ELSE <<>>
                     w2 == Save(w1, book_id, p, doc, "view", iof[<<p, "view">>])
                     t2 == IF w2.ret THEN Append(t1, "view") ELSE t1
                 IN SpaLoop([w |-> w2,
                             failed_pages |-> IF t2 = <<>>
                                              THEN Append(acc.failed_pages, p)
                                              ELSE acc.failed_pages,
                             page_results |-> Append(acc.page_results,
                                [page_number |-> p, success |-> t2 # <<>>,
                                 tabs_downloaded |-> t2])],
                            book_id, requested, i + 1, max_available_page, doc, iof)

\* the except branch of download_complete_book: every page failed
AllFailed(requested) ==
    [i \in 1..Len(requested) |->
        [page_number |-> requested[i], success |-> FALSE,
         tabs_downloaded |-> <<>>]]

\* download_complete_book that takes the last requested page for the
\* last available one, whatever the page index says
download_complete_book_no_index(w, book_id, requested, doc, iof) ==
    IF doc = NoFile \/ requested = <<>>
    THEN [w |-> w, failed_pages |-> requested,
          page_results |-> AllFailed(requested)]
    ELSE SpaLoop([w |-> w, failed_pages |-> <<>>, page_results |-> <<>>],
                 book_id, requested, 1, SetMax(Range(requested)), doc, iof)

\* DownloadWorker.download_complete_book; doc = NoFile when the
\* navigation, the wait or reading the source raises
download_complete_book(w, book_id, requested, doc, iof) ==
    IF doc = NoFile
    THEN [w |-> w, failed_pages |-> requested,
          page_results |-> AllFailed(requested)]
    ELSE LET page_structure == parse_spa_page_structure(doc)
         IN IF page_structure = {} /\ requested = <<>>
            THEN \* max() of an empty list raises ValueError
                 [w |-> w, failed_pages |-> requested,
                  page_results |-> AllFailed(requested)]
            ELSE LET max_available_page ==
                         IF page_structure # {} THEN SetMax(page_structure)
                         ELSE SetMax(Range(requested))
                 IN SpaLoop([w |-> w, failed_pages |-> <<>>,
                             page_results |-> <<>>],
                            book_id, requested, 1, max_available_page, doc, iof)

\* progress.update for every requested page, after the SPA download
RECURSIVE UpdateAll(_, _, _, _)
UpdateAll(pr, pages, i, failed) ==
    IF i > Len(pages) THEN pr
    ELSE UpdateAll(ProgressUpdate(pr, pages[i], pages[i] \notin Range(failed)),
                   pages, i + 1, failed)

\* the opendigi branch of download_book
DownloadCompleteBook(ios) ==
    /\ pc = "download_spa"
    /\ \E doc \in SpaDocs \cup {NoFile}, iof \in [Pages \X Tabs -> ios] :
         LET r == download_complete_book(World(cache, saved, io.writes),
                      call.ident.book_id, dl.pages_to_download, doc, iof)
         IN /\ cache' = r.w.cache
            /\ saved' = r.w.saved
            /\ io' = [io EXCEPT !.writes = r.w.writes,
                        !.navs = Append(@, <<1, "view">>)]
            /\ dl' = [dl EXCEPT
                        !.download_results = r.page_results,
                        !.failed_pages = r.failed_pages,
                        !.complete_html = doc,
                        !.progress = UpdateAll(@, dl.pages_to_download, 1,
                                               r.failed_pages),
                        !.i = Len(dl.pages_to_download) + 1]
    /\ pc' = "download_finish"
    /\ UNCHANGED <<call, dlres, proc, out, ops, savers>>

\* [r['page_number'] for r in download_results if r['success']]
RECURSIVE SuccessfulPages(_)
SuccessfulPages(results) ==
    IF results = <<>> THEN <<>>
    ELSE (IF Head(results).success THEN <<Head(results).page_number>> ELSE <<>>)
         \o SuccessfulPages(Tail(results))

\* what follows the sequential loop in the else branch of download_book:
\* the failure check and the progress callback, on the loop's last result
AfterLoop(d) ==
    LET last == d.download_results[Len(d.download_results)]
    IN [d EXCEPT !.failed_pages = IF ~last.success
                                  THEN Append(@, last.page_number) ELSE @,
                 !.callbacks = Append(@, d.progress.completed_pages)]

\* a final metadata that lists every requested page as cached
FinalMetadata_all_requested(portal_type, total_pages, results) ==
    [CacheMetadata(portal_type) EXCEPT
        !.page_count = total_pages,
        !.pages_cached = [i \in 1..Len(results) |-> results[i].page_number]]

\* the metadata download_book writes at the end: the record returned by
\* initialize_metadata with page_count and pages_cached set
FinalMetadata(portal_type, total_pages, results) ==
    [CacheMetadata(portal_type) EXCEPT
        !.page_count = total_pages,
        !.pages_cached = SuccessfulPages(results)]

\* statistics of download_book
Statistics(d) ==
    LET successful_pages == d.progress.completed_pages - Len(d.failed_pages)
    IN [total_pages |-> Len(d.pages_to_download),
        successful_pages |-> successful_pages,
        failed_pages |-> Len(d.failed_pages),
        success_rate |-> Rate(successful_pages, Len(d.pages_to_download)),
        failed_page_numbers |-> d.failed_pages]

\* download_book that returns without leaving the with block of its
\* connector: the browsing session stays open
DownloadFinish_leaves_session_open ==
    /\ pc = "download_finish"
    /\ LET id == call.ident
           spa == id.portal_type = "opendigi"
       IN IF ~spa /\ dl.download_results = <<>>
          THEN /\ dlres' = Raised("ExtractionError", "download phase")
               /\ UNCHANGED <<cache, dl, io>>
          ELSE LET d == IF spa THEN dl ELSE AfterLoop(dl)
                   st == Statistics(d)
               IN /\ dl' = d
                  /\ cache' = [cache EXCEPT
                                 !.metadata[get_book_cache_dir(id.book_id)] =
                                     FinalMetadata(id.portal_type, d.total_pages,
                                                   d.download_results)]
                  /\ io' = [io EXCEPT !.writes = @ + 1]
                  /\ dlres' = [NoDlRes EXCEPT !.status = "returned",
                                 !.success = (st.failed_pages = 0),
                                 !.statistics = st]
    /\ pc' = AfterDownload
    /\ UNCHANGED <<saved, call, proc, out, ops, savers>>

\* download_book after the download: final metadata, statistics, return;
\* the browsing session is closed on the way out
DownloadFinish ==
    /\ pc = "download_finish"
    /\ LET id == call.ident
           spa == id.portal_type = "opendigi"
       IN IF ~spa /\ dl.download_results = <<>>
          THEN \* "result" is unbound: NameError inside the try
               /\ dlres' = Raised("ExtractionError", "download phase")
               /\ io' = [io EXCEPT !.sessions_closed = @ + 1]
               /\ UNCHANGED <<cache, dl>>
          ELSE LET d == IF spa THEN dl ELSE AfterLoop(dl)
                   st == Statistics(d)
               IN /\ dl' = d
                  /\ cache' = [cache EXCEPT
                                 !.metadata[get_book_cache_dir(id.book_id)] =
                                     FinalMetadata(id.portal_type, d.total_pages,
                                                   d.download_results)]
                  /\ io' = [io EXCEPT !.writes = @ + 1,
                              !.sessions_closed = @ + 1]
                  /\ dlres' = [NoDlRes EXCEPT !.status = "returned",
                                 !.success = (st.failed_pages = 0),
                                 !.statistics = st]
    /\ pc' = AfterDownload
    /\ UNCHANGED <<saved, call, proc, out, ops, savers>>

\* ------------------------------------------------------------------------
\* Orchestrator and processing phase
\* ------------------------------------------------------------------------
\* extract_book that runs the download phase whatever skip_download says
ExtractBookCall_no_skip ==
    /\ pc = "idle"
    /\ ops < MaxOps
    /\ \E id \in Identifiers, sp \in Pages, ep \in Pages \cup {None},
          force \in BOOLEAN, skip \in BOOLEAN, mw \in Widths :
         /\ call' = [NoCall EXCEPT !.op = "extract_book", !.ident = id,
                       !.start_page = sp, !.end_page = ep,
                       !.force_redownload = force, !.skip_download = skip,
                       !.max_workers = mw,
                       !.pre_cached = is_cached(cache, id.book_id)]
         /\ pc' = "download_start"
    /\ io' = NoIO
    /\ dl' = NoDl
    /\ dlres' = NoDlRes
    /\ proc' = NoProc
    /\ out' = NoOut
    /\ ops' = ops + 1
    /\ UNCHANGED <<cache, saved, savers>>

\* TwoPhaseContentScraper.extract_book is called: START
ExtractBookCall ==
    /\ pc = "idle"
    /\ ops < MaxOps
    /\ \E id \in Identifiers, sp \in Pages, ep \in Pages \cup {None},
          force \in BOOLEAN, skip \in BOOLEAN, mw \in Widths :
         /\ call' = [NoCall EXCEPT !.op = "extract_book", !.ident = id,
                       !.start_page = sp, !.end_page = ep,
                       !.force_redownload = force, !.skip_download = skip,
                       !.max_workers = mw,
                       !.pre_cached = is_cached(cache, id.book_id)]
         /\ pc' = IF skip THEN "process_begin" ELSE "download_start"
    /\ io' = NoIO
    /\ dl' = NoDl
    /\ dlres' = NoDlRes
    /\ proc' = NoProc
    /\ out' = NoOut
    /\ ops' = ops + 1
    /\ UNCHANGED <<cache, saved, savers>>

Failed(operation) ==
    [NoOut EXCEPT !.status = "raised", !.operation = operation]

\* extract_book that looks at the result of download_book only: an
\* exception raised by download_book is taken for a result to process
ExtractAfterDownload_result_only ==
    /\ pc = "extract_after_download"
    /\ IF dlres.status = "returned" /\ ~dlres.success /\ ~dlres.from_cache
       THEN /\ out' = Failed("download phase")
            /\ pc' = "idle"
       ELSE /\ out' = out
            /\ pc' = "process_begin"
    /\ UNCHANGED <<cache, saved, call, io, dl, dlres, proc, ops, savers>>

\* extract_book after download_book: an exception, or a result that is
\* neither successful nor from the cache, ends the call
ExtractAfterDownload ==
    /\ pc = "extract_after_download"
    /\ IF dlres.status = "raised" \/ (~dlres.success /\ ~dlres.from_cache)
       THEN /\ out' = Failed("download phase")
            /\ pc' = "idle"
       ELSE /\ out' = out
            /\ pc' = "process_begin"
    /\ UNCHANGED <<cache, saved, call, io, dl, dlres, proc, ops, savers>>

\* ProcessingPhase(cache, max_workers).process_cached_book(book_id), called
\* on its own
ProcessCachedBookCall ==
    /\ pc = "idle"
    /\ \E b \in BookIds, mw \in Widths :
         call' = [NoCall EXCEPT !.op = "process_cached_book",
                    !.ident = [book_id |-> b, portal_type |-> ""],
                    !.max_workers = mw,
                    !.pre_cached = is_cached(cache, b)]
    /\ pc' = "process_begin"
    /\ io' = NoIO
    /\ dl' = NoDl
    /\ dlres' = NoDlRes
    /\ proc' = NoProc
    /\ out' = NoOut
    /\ UNCHANGED <<cache, saved, ops, savers>>

\* process_cached_book up to the submission of the tasks
ProcessStart ==
    /\ pc = "process_begin"
    /\ LET b == call.ident.book_id
           cached_pages == get_cached_pages(cache, b)
       IN IF ~is_cached(cache, b) \/ cached_pages = <<>>
          THEN /\ out' = Failed("processing phase")
               /\ pc' = "idle"
               /\ proc' = proc
          ELSE /\ proc' = [NoProc EXCEPT
                             !.cached_pages = cached_pages,
                             !.tasks = [p \in Range(cached_pages) |-> "submitted"],
                             !.workers = [p \in Range(cached_pages) |-> NoWorker],
                             !.progress = Progress(Len(cached_pages))]
               /\ pc' = "process_pool"
               /\ out' = out
    /\ UNCHANGED <<cache, saved, call, io, dl, dlres, ops, savers>>

NoInfo ==
    [available |-> FALSE, extraction_method |-> "", source |-> "",
     doc |-> NoFile]

\* ProcessingWorker._detect_spa_website
detect_spa_website(html) == html.kind = "spa"

\* ProcessingWorker._extract_transcript_data / _extract_image_data
ExtractStructural(html) ==
    [NoInfo EXCEPT !.available = TRUE, !.source = "cache", !.doc = html]

\* a static analysis that reports the content as unavailable
extract_spa_static_content_unavailable(html) == NoInfo

\* ProcessingWorker._extract_spa_static_content
extract_spa_static_content(html) ==
    [NoInfo EXCEPT !.available = TRUE,
                   !.extraction_method = "spa_static_fallback",
                   !.source = "placeholder"]

\* what the rendering session of _execute_spa_extraction does:
\*   "unavailable" no session can be opened (no Selenium, no browser)
\*   "failed"      the session loads the URL and times out or breaks
\*   "rendered"    the session loads the URL and the DOM is read
RenderOutcomes == {"unavailable", "failed", "rendered"}

\* the remote documents _execute_spa_extraction requests
execute_spa_extraction(p, t, render) ==
    IF render = "unavailable" THEN {} ELSE {<<HardCodedBook, t, p>>}

\* ProcessingWorker._extract_spa_page_content
extract_spa_page_content(html, p, t, render) ==
    IF html = NoFile THEN NoInfo
    ELSE IF render = "rendered"
    THEN [NoInfo EXCEPT !.available = TRUE,
                        !.extraction_method = "spa_javascript_execution",
                        !.source = "remote"]
    ELSE extract_spa_static_content(html)

\* where the body of process_page can raise: nowhere, while it loads the
\* two blobs, or in the content analysis after both infos are set
WorkerFaults == {"none", "load", "analysis"}

\* ProcessingWorker.process_page: the try block, and the except branch that
\* turns an exception into extraction_success = False and an error text
process_page(c, book_id, p, render, fault) ==
    LET transcript_html == load_page_content(c, book_id, p, "transcript")
        view_html == load_page_content(c, book_id, p, "view")
        first == IF transcript_html # NoFile THEN transcript_html ELSE view_html
        is_spa == detect_spa_website(first)
        html == [t \in Tabs |-> IF t = "transcript" THEN transcript_html
                                ELSE view_html]
        rendered == [t \in Tabs |-> fault # "load" /\ is_spa /\ html[t] # NoFile]
        info == [t \in Tabs |->
                   IF fault = "load" THEN NoInfo
                   ELSE IF is_spa
                   THEN extract_spa_page_content(html[t], p, t, render[t])
                   ELSE IF html[t] # NoFile THEN ExtractStructural(html[t])
                   ELSE NoInfo]
    IN [page_number |-> p,
        extraction_success |-> fault = "none",
        error |-> IF fault = "none" THEN "" ELSE "raised",
        transcript_info |-> info["transcript"],
        image_info |-> info["view"],
        rendering |-> [t \in Tabs |-> IF rendered[t] THEN render[t]
                                      ELSE "not_called"],
        remote |-> UNION { IF rendered[t]
                           THEN execute_spa_extraction(p, t, render[t])
                           ELSE {} : t \in Tabs }]

\* the page record process_page returns
PageRecord(r) ==
    [page_number |-> r.page_number,
     extraction_success |-> r.extraction_success,
     error |-> r.error,
     transcript_info |-> r.transcript_info,
     image_info |-> r.image_info]

\* the submitted pages no pool thread has finished yet, in the order of
\* their submission
RECURSIVE Unfinished(_, _)
Unfinished(pages, tasks) ==
    IF pages = <<>> THEN <<>>
    ELSE (IF tasks[Head(pages)] \in {"submitted", "running"}
          THEN <<Head(pages)>> ELSE <<>>)
         \o Unfinished(Tail(pages), tasks)

\* ThreadPoolExecutor(max_workers): the threads take the tasks from a
\* first-in first-out queue, so the tasks that can finish next are the
\* first max_workers unfinished ones
Runnable(pages, tasks, max_workers) ==
    LET u == Unfinished(pages, tasks)
    IN { u[i] : i \in 1..MinOf(max_workers, Len(u)) }

\* a pool thread runs process_page for one submitted page
ProcessPage(faults) ==
    /\ pc = "process_pool"
    /\ \E p \in Runnable(proc.cached_pages, proc.tasks, call.max_workers),
          render \in [Tabs -> RenderOutcomes], fault \in faults :
         /\ proc.tasks[p] = "submitted"
         /\ LET r == process_page(cache, call.ident.book_id, p, render, fault)
            IN /\ proc' = [proc EXCEPT
                             !.tasks[p] = "finished",
                             !.results = Put(@, p, PageRecord(r)),
                             !.rendering = Put(@, p, r.rendering),
                             !.raised = IF fault = "none" THEN @
                                        ELSE @ \cup {p}]
               /\ io' = [io EXCEPT !.remote = @ \cup r.remote]
    /\ UNCHANGED <<cache, saved, pc, call, dl, dlres, out, ops, savers>>

\* ------------------------------------------------------------------------
\* process_page step by step: the rendering session of each
\* _execute_spa_extraction call is opened, used and quit in separate steps,
\* so that the sessions of several pool threads overlap in time
\* ------------------------------------------------------------------------
\* process_page calls _execute_spa_extraction for tab t of page p: the page
\* is a single-page-application page and the tab has cached content
NeedsRendering(c, book_id, p, t) ==
    LET transcript_html == load_page_content(c, book_id, p, "transcript")
        view_html == load_page_content(c, book_id, p, "view")
        first == IF transcript_html # NoFile THEN transcript_html ELSE view_html
    IN detect_spa_website(first) /\ load_page_content(c, book_id, p, t) # NoFile

\* the first tab from t on, in the order transcript, view, that is
\* rendered; "" when there is none
RenderFrom(c, book_id, p, t) ==
    IF t = "transcript" /\ NeedsRendering(c, book_id, p, "transcript")
    THEN "transcript"
    ELSE IF t \in Tabs /\ NeedsRendering(c, book_id, p, "view") THEN "view"
    ELSE ""

AfterTab(t) == IF t = "transcript" THEN "view" ELSE ""

\* the worker moves on to the rendering of tab t, or to its return
Goto(w, t) ==
    IF t = "" THEN [w EXCEPT !.pc = "return", !.tab = ""]
    ELSE [w EXCEPT !.pc = "open", !.tab = t]

\* a pool thread takes the task of page p and enters process_page
WorkerStart(p) ==
    /\ pc = "process_pool"
    /\ p \in Runnable(proc.cached_pages, proc.tasks, call.max_workers)
    /\ proc.tasks[p] = "submitted"
    /\ proc' = [proc EXCEPT
                  !.tasks[p] = "running",
                  !.workers[p] = Goto(NoWorker,
                                      RenderFrom(cache, call.ident.book_id, p,
                                                 "transcript"))]
    /\ UNCHANGED <<cache, saved, pc, call, io, dl, dlres, out, ops, savers>>

\* _execute_spa_extraction up to driver = webdriver.Chrome(...): a new
\* session bound to the local variable, or none (Selenium missing, or the
\* browser does not start)
RenderOpen(p) ==
    /\ pc = "process_pool"
    /\ p \in DOMAIN proc.workers
    /\ proc.workers[p].pc = "open"
    /\ LET w == proc.workers[p]
       IN \E opened \in BOOLEAN :
            IF opened
            THEN proc' = [proc EXCEPT
                            !.sessions = Append(@, [owner |-> p, tab |-> w.tab,
                                                    open |-> TRUE,
                                                    used_by |-> {}]),
                            !.workers[p] = [w EXCEPT !.pc = "extract",
                                              !.driver = Len(proc.sessions) + 1]]
            ELSE proc' = [proc EXCEPT
                            !.workers[p] =
                                Goto([w EXCEPT !.render[w.tab] = "unavailable"],
                                     RenderFrom(cache, call.ident.book_id, p,
                                                AfterTab(w.tab)))]
    /\ UNCHANGED <<cache, saved, pc, call, io, dl, dlres, out, ops, savers>>

\* _execute_spa_extraction with its session: load the page, wait, read
\* the DOM; it ends with the content or with an exception that is caught
RenderExtract(p) ==
    /\ pc = "process_pool"
    /\ p \in DOMAIN proc.workers
    /\ proc.workers[p].pc = "extract"
    /\ LET w == proc.workers[p]
       IN \E o \in {"failed", "rendered"} :
            /\ proc' = [proc EXCEPT
                          !.sessions[w.driver].used_by = @ \cup {p},
                          !.workers[p] = [w EXCEPT !.pc = "quit",
                                            !.render[w.tab] = o]]
            /\ io' = [io EXCEPT
                        !.remote = @ \cup execute_spa_extraction(p, w.tab, o)]
    /\ UNCHANGED <<cache, saved, pc, call, dl, dlres, out, ops, savers>>

\* a finally block that quits the session after a successful extraction
\* only
RenderQuit_on_success_only(p) ==
    /\ pc = "process_pool"
    /\ p \in DOMAIN proc.workers
    /\ proc.workers[p].pc = "quit"
    /\ LET w == proc.workers[p]
       IN proc' = [proc EXCEPT
                     !.sessions[w.driver].open = (w.render[w.tab] # "rendered"),
                     !.workers[p] =
                         Goto([w EXCEPT !.driver = 0],
                              RenderFrom(cache, call.ident.book_id, p,
                                         AfterTab(w.tab)))]
    /\ UNCHANGED <<cache, saved, pc, call, io, dl, dlres, out, ops, savers>>

\* the finally block of _execute_spa_extraction: driver.quit()
RenderQuit(p) ==
    /\ pc = "process_pool"
    /\ p \in DOMAIN proc.workers
    /\ proc.workers[p].pc = "quit"
    /\ LET w == proc.workers[p]
       IN proc' = [proc EXCEPT
                     !.sessions[w.driver].open = FALSE,
                     !.workers[p] =
                         Goto([w EXCEPT !.driver = 0],
                              RenderFrom(cache, call.ident.book_id, p,
                                         AfterTab(w.tab)))]
    /\ UNCHANGED <<cache, saved, pc, call, io, dl, dlres, out, ops, savers>>

\* process_page returns its record and the task is finished
WorkerReturn(p) ==
    /\ pc = "process_pool"
    /\ p \in DOMAIN proc.workers
    /\ proc.workers[p].pc = "return"
    /\ LET w == proc.workers[p]
           r == process_page(cache, call.ident.book_id, p, w.render, "none")
       IN proc' = [proc EXCEPT
                     !.tasks[p] = "finished",
                     !.workers[p] = [w EXCEPT !.pc = "done"],
                     !.results = Put(@, p, PageRecord(r)),
                     !.rendering = Put(@, p, r.rendering)]
    /\ UNCHANGED <<cache, saved, pc, call, io, dl, dlres, out, ops, savers>>

\* what the progress callback does when process_cached_book calls it
CallbackOutcomes == {"ok", "raises"}

\* the body of the as_completed loop for the finished task of page p: the
\* try block, and the except branch when the progress callback raises
CollectOne(pr, p, cb) ==
    LET result == pr.results[p]
        upd == ProgressUpdate(pr.progress, p, result.extraction_success)
        n == [pr EXCEPT
                !.tasks[p] = "collected",
                !.processed_pages = Append(@, result),
                !.progress = upd,
                !.failed_pages = IF result.extraction_success THEN @
                                 ELSE Append(@, p),
                !.callbacks = Append(@, upd.completed_pages)]
    IN IF cb = "raises"
       THEN [n EXCEPT !.failed_pages = Append(@, p),
                      !.progress = ProgressUpdate(@, p, FALSE)]
       ELSE n

\* an as_completed loop that ends with the first finished task
Collect_first_only(cbs) ==
    /\ pc = "process_pool"
    /\ \E p \in DOMAIN proc.tasks, cb \in cbs :
         /\ proc.tasks[p] = "finished"
         /\ proc' = CollectOne(proc, p, cb)
    /\ pc' = "process_finish"
    /\ UNCHANGED <<cache, saved, call, io, dl, dlres, out, ops, savers>>

\* an as_completed loop that keeps the records of the successful pages only
Collect_drop_failed(cbs) ==
    /\ pc = "process_pool"
    /\ \E p \in DOMAIN proc.tasks, cb \in cbs :
         /\ proc.tasks[p] = "finished"
         /\ LET n == [CollectOne(proc, p, cb) EXCEPT
                        !.processed_pages =
                            IF proc.results[p].extraction_success THEN @
                            ELSE proc.processed_pages]
            IN /\ proc' = n
               /\ pc' = IF \A q \in DOMAIN n.tasks : n.tasks[q] = "collected"
                        THEN "process_finish" ELSE "process_pool"
    /\ UNCHANGED <<cache, saved, call, io, dl, dlres, out, ops, savers>>

\* the as_completed loop of process_cached_book, one finished task at a
\* time; the with block is left after the last one
Collect(cbs) ==
    /\ pc = "process_pool"
    /\ \E p \in DOMAIN proc.tasks, cb \in cbs :
         /\ proc.tasks[p] = "finished"
         /\ LET n == CollectOne(proc, p, cb)
            IN /\ proc' = n
               /\ pc' = IF \A q \in DOMAIN n.tasks : n.tasks[q] = "collected"
                        THEN "process_finish" ELSE "process_pool"
    /\ UNCHANGED <<cache, saved, call, io, dl, dlres, out, ops, savers>>

\* a sort step that puts the record at the end, wherever it belongs
InsertByPage_append(s, x) == Append(s, x)

\* processed_pages.sort(key=lambda p: p['page_number'])
RECURSIVE InsertByPage(_, _)
InsertByPage(s, x) ==
    IF s = <<>> THEN <<x>>
    ELSE IF x.page_number < Head(s).page_number THEN <<x>> \o s
    ELSE <<Head(s)>> \o InsertByPage(Tail(s), x)

\* processed_pages left in the order the tasks were collected
SortByPage_completion_order(s) == s

RECURSIVE SortByPage(_)
SortByPage(s) ==
    IF s = <<>> THEN <<>>
    ELSE InsertByPage(SortByPage(Tail(s)), Head(s))

\* a process_cached_book that removes the cache of the book it has processed
ProcessFinish_clears_cache ==
    /\ pc = "process_finish"
    /\ LET pages == SortByPage(proc.processed_pages)
           downloaded == dlres.status = "returned" /\ ~dlres.from_cache
       IN out' = [NoOut EXCEPT
                    !.status = "returned",
                    !.pages = pages,
                    !.pages_processed = Len(pages),
                    !.success_rate = Rate(Len(pages) - Len(proc.failed_pages),
                                          Len(pages)),
                    !.errors = proc.failed_pages,
                    !.has_download_statistics = downloaded,
                    !.download_statistics = IF downloaded THEN dlres.statistics
                                            ELSE NoStats,
                    !.used_cache = IF dlres.status = "returned"
                                   THEN (IF dlres.from_cache THEN "true"
                                         ELSE "false")
                                   ELSE "unset"]
    /\ pc' = "idle"
    /\ cache' = clear_cache(cache, call.ident.book_id)
    /\ UNCHANGED <<saved, call, io, dl, dlres, proc, ops, savers>>

\* the end of process_cached_book and of extract_book: sort, statistics,
\* download statistics and the cache flag; DONE
ProcessFinish ==
    /\ pc = "process_finish"
    /\ LET pages == SortByPage(proc.processed_pages)
           downloaded == dlres.status = "returned" /\ ~dlres.from_cache
       IN out' = [NoOut EXCEPT
                    !.status = "returned",
                    !.pages = pages,
                    !.pages_processed = Len(pages),
                    !.success_rate = Rate(Len(pages) - Len(proc.failed_pages),
                                          Len(pages)),
                    !.errors = proc.failed_pages,
                    !.has_download_statistics = downloaded,
                    !.download_statistics = IF downloaded THEN dlres.statistics
                                            ELSE NoStats,
                    !.used_cache = IF dlres.status = "returned"
                                   THEN (IF dlres.from_cache THEN "true"
                                         ELSE "false")
                                   ELSE "unset"]
    /\ pc' = "idle"
    /\ UNCHANGED <<cache, saved, call, io, dl, dlres, proc, ops, savers>>

\* ------------------------------------------------------------------------
\* The cache directory is an ordinary directory: between calls another
\* program can delete or rewrite a blob file
\* ------------------------------------------------------------------------
Tampered(c) ==
    /\ cache' = c
    /\ call' = [NoCall EXCEPT !.op = "tamper"]
    /\ io' = NoIO
    /\ dl' = NoDl
    /\ dlres' = NoDlRes
    /\ proc' = NoProc
    /\ out' = NoOut
    /\ ops' = ops + 1
    /\ UNCHANGED <<saved, pc, savers>>

RemoveBlob ==
    /\ pc = "idle"
    /\ ops < MaxOps
    /\ \E f \in FilePaths :
         /\ cache.files[f] # NoFile
         /\ Tampered([cache EXCEPT !.files[f] = NoFile])

CorruptBlob ==
    /\ pc = "idle"
    /\ ops < MaxOps
    /\ \E f \in FilePaths, d \in Docs :
         /\ cache.files[f] # NoFile
         /\ cache.files[f] # d
         /\ Tampered([cache EXCEPT !.files[f] = d])

\* ------------------------------------------------------------------------
\* save_page_content called from several threads on one RawContentCache.
\* The call takes no lock: each file operation is a step of its own.
\* ------------------------------------------------------------------------
\* a thread enters save_page_content(book_id, page_number, html_content,
\* tab_type)
SaverCall(th) ==
    /\ pc = "idle"
    /\ savers[th].pc = "idle"
    /\ \E b \in BookIds, p \in Pages, t \in Tabs, d \in Docs :
         savers' = [savers EXCEPT ![th] =
                      [NoSaver EXCEPT !.pc = "blob", !.book_id = b, !.page = p,
                                      !.tab = t, !.doc = d]]
    /\ UNCHANGED <<cache, saved, pc, call, io, dl, dlres, proc, out, ops>>

\* the thread writes the blob file
SaverWriteBlob(th) ==
    /\ savers[th].pc = "blob"
    /\ LET sv == savers[th]
       IN cache' = [cache EXCEPT
                      !.files[FilePath(sv.book_id, sv.page, sv.tab)] = sv.doc]
    /\ savers' = [savers EXCEPT ![th].pc = "read"]
    /\ UNCHANGED <<saved, pc, call, io, dl, dlres, proc, out, ops>>

\* _update_metadata, first half: the thread loads metadata.json (or makes
\* a new record) and updates its own copy
SaverReadMetadata(th) ==
    /\ savers[th].pc = "read"
    /\ LET sv == savers[th]
           c2 == update_metadata(cache, sv.book_id, sv.page, sv.tab, md5(sv.doc))
       IN savers' = [savers EXCEPT
                       ![th].pc = "write",
                       ![th].metadata = c2.metadata[get_book_cache_dir(sv.book_id)]]
    /\ UNCHANGED <<cache, saved, pc, call, io, dl, dlres, proc, out, ops>>

\* _update_metadata, second half: the thread writes its copy over
\* metadata.json; save_page_content returns True
SaverWriteMetadata(th) ==
    /\ savers[th].pc = "write"
    /\ LET sv == savers[th]
       IN /\ cache' = [cache EXCEPT
                         !.metadata[get_book_cache_dir(sv.book_id)] = sv.metadata]
          /\ saved' = [saved EXCEPT
                         ![FilePath(sv.book_id, sv.page, sv.tab)] = sv.doc]
    /\ savers' = [savers EXCEPT ![th].pc = "returned", ![th].ret = TRUE]
    /\ UNCHANGED <<pc, call, io, dl, dlres, proc, out, ops>>

Next ==
    \/ SavePageContent(BookIds, {"ok"})
    \/ ClearCache(BookIds)
    \/ DownloadBookCall
    \/ DownloadStart
    \/ DownloadPage({"ok"}, {"loaded", "raised"})
    \/ DownloadCompleteBook({"ok"})
    \/ DownloadFinish
    \/ ExtractBookCall
    \/ ExtractAfterDownload
    \/ ProcessStart
    \/ ProcessPage({"none"})
    \/ Collect({"ok"})
    \/ ProcessFinish

Spec == Init /\ [][Next]_vars

\* the program together with the other users of the cache directory
NextEnv ==
    \/ Next
    \/ RemoveBlob
    \/ CorruptBlob

SpecEnv == Init /\ [][NextEnv]_vars

\* several threads, each making one save_page_content call
NextThreads ==
    \/ \E th \in Threads : SaverCall(th)
    \/ \E th \in Threads : SaverWriteBlob(th)
    \/ \E th \in Threads : SaverReadMetadata(th)
    \/ \E th \in Threads : SaverWriteMetadata(th)

SpecThreads == Init /\ [][NextThreads]_vars

\* the program on a disk whose writes can fail
NextIO ==
    \/ SavePageContent(BookIds, IOOutcomes)
    \/ ClearCache(BookIds)
    \/ DownloadBookCall
    \/ DownloadStart
    \/ DownloadPage(IOOutcomes, {"loaded", "raised"})
    \/ DownloadCompleteBook(IOOutcomes)
    \/ DownloadFinish

SpecIO == Init /\ [][NextIO]_vars

\* the processing phase on its own, with workers whose body can raise
NextWorker ==
    \/ SavePageContent(BookIds, {"ok"})
    \/ ProcessCachedBookCall
    \/ ProcessStart
    \/ ProcessPage(WorkerFaults)
    \/ Collect({"ok"})
    \/ ProcessFinish

SpecWorker == Init /\ [][NextWorker]_vars

\* the download phase with content waits that can time out
NextWait ==
    \/ DownloadBookCall
    \/ DownloadStart
    \/ DownloadPage({"ok"}, FetchOutcomes)
    \/ DownloadCompleteBook({"ok"})
    \/ DownloadFinish

SpecWait == Init /\ [][NextWait]_vars

\* the cache API called with book ids that share a directory
NextBooks ==
    \/ SavePageContent(AnyBookIds, {"ok"})
    \/ InitializeMetadata(AnyBookIds)
    \/ ClearCache(AnyBookIds)

SpecBooks == Init /\ [][NextBooks]_vars

\* the processing phase with a progress callback that can raise
NextCallback ==
    \/ SavePageContent(BookIds, {"ok"})
    \/ ProcessCachedBookCall
    \/ ProcessStart
    \/ ProcessPage(WorkerFaults)
    \/ Collect(CallbackOutcomes)
    \/ ProcessFinish

SpecCallback == Init /\ [][NextCallback]_vars

\* the processing phase with the rendering sessions of its pool threads
NextRender ==
    \/ SavePageContent(BookIds, {"ok"})
    \/ ProcessCachedBookCall
    \/ ProcessStart
    \/ \E p \in Pages : WorkerStart(p)
    \/ \E p \in Pages : RenderOpen(p)
    \/ \E p \in Pages : RenderExtract(p)
    \/ \E p \in Pages : RenderQuit(p)
    \/ \E p \in Pages : WorkerReturn(p)
    \/ Collect({"ok"})
    \/ ProcessFinish

SpecRender == Init /\ [][NextRender]_vars

\* ------------------------------------------------------------------------
\* Properties
\* ------------------------------------------------------------------------
DownloadReturned == dlres.status = "returned" /\ ~dlres.from_cache

Requested == Range(dl.pages_to_download)

\* the requested pages whose download result is a failure
FailedDownloads ==
    { dl.download_results[i].page_number :
        i \in { j \in 1..Len(dl.download_results) :
                  ~dl.download_results[j].success } }

BookMeta(b) == cache.metadata[get_book_cache_dir(b)]

\* C1: when a download_book call without force_redownload has returned and
\* is followed by a second call with the same arguments, the second call
\* returns from_cache = true and opens no session, navigates nowhere and
\* writes nothing.
C1_SecondDownloadFromCache ==
    (pc = "idle" /\ call.op = "download_book" /\ call.repeat
        /\ ~call.force_redownload)
    => /\ dlres.status = "returned"
       /\ dlres.from_cache
       /\ io.sessions_opened = 0
       /\ io.navs = <<>>
       /\ io.writes = 0

\* C2: when download_book returns for a paginated source, the statistics
\* list exactly the pages whose download failed, the counts agree with
\* that list, and the metadata lists exactly the other requested pages.
C2_FailedPagesExact ==
    (DownloadReturned /\ call.ident.portal_type = "gundert_portal")
    => LET st == dlres.statistics
           F  == FailedDownloads
       IN /\ Range(st.failed_page_numbers) = F
          /\ Len(st.failed_page_numbers) = Cardinality(F)
          /\ st.failed_pages = Cardinality(F)
          /\ st.successful_pages = Cardinality(Requested) - Cardinality(F)
          /\ Range(get_cached_pages(cache, call.ident.book_id)) = Requested \ F

\* C3: when the download of an extract_book call returned with at least
\* one page cached and at least one page recorded as failed, the call
\* ends with a result, not with an error.
C3_PartialDownloadStillProcessed ==
    (pc = "idle" /\ call.op = "extract_book" /\ DownloadReturned
        /\ SuccessfulPages(dl.download_results) # <<>>
        /\ dlres.statistics.failed_page_numbers # <<>>)
    => out.status = "returned"

C5_ValidAfterSave ==
    (call.op = "save_page_content" /\ call.ret /\ call.pre_valid)
    => /\ validate_cache(cache, call.ident.book_id).valid
       /\ validate_cache(cache, call.ident.book_id).issues = <<>>

\* a blob of page p that was saved (its checksum is recorded) and is now
\* missing or no longer has the recorded checksum
Damaged(b, p) ==
    \E t \in Tabs :
        /\ ChecksumKey(p, t) \in DOMAIN BookMeta(b).checksums
        /\ \/ load_page_content(cache, b, p, t) = NoFile
           \/ md5(load_page_content(cache, b, p, t))
                # BookMeta(b).checksums[ChecksumKey(p, t)]

IssuePages(b) ==
    { validate_cache(cache, b).issues[i].page :
        i \in 1..Len(validate_cache(cache, b).issues) }

\* C6: for every page listed in pages_cached whose blob is missing or no
\* longer matches the checksum recorded at save time, validate_cache
\* returns invalid and names the page among its issues.
C6_DamageDetected ==
    \A b \in BookIds :
        \A p \in Range(get_cached_pages(cache, b)) :
            Damaged(b, p)
            => /\ ~validate_cache(cache, b).valid
               /\ p \in IssuePages(b)

\* C7: every page in pages_cached has at least one checksum entry in the
\* metadata and at least one blob on disk.
C7_CachedPagesBacked ==
    \A b \in BookIds :
        \A p \in Range(get_cached_pages(cache, b)) :
            /\ \E t \in Tabs : ChecksumKey(p, t) \in DOMAIN BookMeta(b).checksums
            /\ \E t \in Tabs : load_page_content(cache, b, p, t) # NoFile

\* the single-page-application download of the running call has returned
\* and the document it fetched has a non-empty page index
SpaFanOut ==
    /\ DownloadReturned
    /\ call.ident.portal_type = "opendigi"
    /\ dl.complete_html # NoFile
    /\ parse_spa_page_structure(dl.complete_html) # {}

SkipUncached ==
    /\ call.op = "extract_book"
    /\ call.skip_download
    /\ ~call.pre_cached

\* C9: extract_book with skip_download on a book without cache ends with
\* an extraction error of the processing phase; it opens no browsing
\* session, navigates nowhere, requests nothing and writes nothing.
C9_SkipDownloadUncached ==
    SkipUncached
    => /\ pc \in {"process_begin", "idle"}
       /\ pc = "idle" => (out.status = "raised"
                            /\ out.operation = "processing phase")
       /\ io = NoIO
       /\ ~is_cached(cache, call.ident.book_id)

C9_Witness ==
    /\ SkipUncached
    /\ pc = "idle"
    /\ out.status = "raised"
    /\ out.operation = "processing phase"

\* C10: while the processing phase runs, no request to a remote site is
\* made: the rendering of a page loads the cached source only.
C10_ProcessingOffline ==
    pc \in {"process_begin", "process_pool", "process_finish"}
    => io.remote = {}

\* the call was extract_book and it has returned a result
ExtractReturned ==
    /\ pc = "idle"
    /\ call.op = "extract_book"
    /\ out.status = "returned"

\* the page records a pool of width 1 can return for page p of a cache:
\* process_page run alone, for each answer of the rendering resource
WidthOneRecords(c, book_id, p) ==
    { PageRecord(process_page(c, book_id, p, render, "none")) :
        render \in [Tabs -> RenderOutcomes] }

RateEq(a, b) == a.num * b.den = b.num * a.den

\* the paginated download loop of the extract_book call has run and the
\* call has ended
PaginatedExtractEnded ==
    /\ pc = "idle"
    /\ call.op = "extract_book"
    /\ call.ident.portal_type = "gundert_portal"
    /\ dlres.status # "none"
    /\ dl.download_results # <<>>

\* C12: when extract_book has downloaded a paginated source and the
\* download failed on the set F of requested pages, the call returns a
\* result with one page record per requested page, successful exactly for
\* the pages outside F, and the success rate is (requested - |F|) over
\* requested.
C12_FailedPagesInResult ==
    PaginatedExtractEnded
    => LET F == FailedDownloads
           N == Len(dl.pages_to_download)
       IN /\ out.status = "returned"
          /\ Len(out.pages) = N
          /\ \A i \in 1..MinOf(N, Len(out.pages)) :
                /\ out.pages[i].page_number = dl.pages_to_download[i]
                /\ out.pages[i].extraction_success
                     = (dl.pages_to_download[i] \notin F)
          /\ RateEq(out.success_rate, Rate(N - Cardinality(F), N))

\* C13: when every requested page failed to download, download_book
\* returns instead of raising, reports a success rate of 0 and lists every
\* requested page number as failed.
C13_ZeroOfN ==
    (dlres.status # "none" /\ dl.download_results # <<>>
        /\ FailedDownloads = Requested)
    => /\ dlres.status = "returned"
       /\ dlres.statistics.success_rate.num = 0
       /\ Range(dlres.statistics.failed_page_numbers) = Requested
       /\ Len(dlres.statistics.failed_page_numbers) = Cardinality(Requested)

\* every thread has returned True from its save_page_content call, all on
\* one book and on pairwise distinct (page, content kind)
AllSaversReturned ==
    /\ \A th \in Threads : savers[th].pc = "returned" /\ savers[th].ret
    /\ \A t1 \in Threads, t2 \in Threads :
         /\ savers[t1].book_id = savers[t2].book_id
         /\ t1 # t2 => <<savers[t1].page, savers[t1].tab>>
                          # <<savers[t2].page, savers[t2].tab>>

\* C14: once concurrent save_page_content calls on distinct (page, content
\* kind) of one book have all returned True, pages_cached contains every
\* saved page and checksums has an entry for every saved (page, content
\* kind).
C14_NoLostUpdate ==
    AllSaversReturned
    => \A th \in Threads :
         /\ savers[th].page \in Range(get_cached_pages(cache, savers[th].book_id))
         /\ ChecksumKey(savers[th].page, savers[th].tab)
              \in DOMAIN BookMeta(savers[th].book_id).checksums

\* C15: save_page_content returns True only when the page blob and the
\* metadata update are both on disk: a failed write of either makes it
\* return False.
C15_SaveReportsFailure ==
    (call.op = "save_page_content" /\ call.ret)
    => LET b == call.ident.book_id
       IN /\ load_page_content(cache, b, call.page, call.tab) = call.doc
          /\ call.page \in Range(get_cached_pages(cache, b))
          /\ ChecksumKey(call.page, call.tab) \in DOMAIN BookMeta(b).checksums
          /\ BookMeta(b).checksums[ChecksumKey(call.page, call.tab)]
               = md5(call.doc)

\* download_book is about to run on a book that is cached and valid, and
\* force_redownload is false
ShortcutDue ==
    /\ pc = "download_start"
    /\ is_cached(cache, call.ident.book_id)
    /\ validate_cache(cache, call.ident.book_id).valid
    /\ ~call.force_redownload

\* what download_book does in the step from pc = "download_start"
ShortcutStep ==
    /\ ShortcutDue => /\ dlres'.status = "returned"
                      /\ dlres'.from_cache
                      /\ cache' = cache
                      /\ saved' = saved
                      /\ io' = NoIO
    /\ (pc = "download_start" /\ call.force_redownload)
         => ~dlres'.from_cache

\* C16: when the book is cached, validate_cache reports it valid and
\* force_redownload is false, download_book returns from_cache = true and
\* leaves the metadata, the blobs and the browsing collaborator untouched;
\* with force_redownload = true it does not return from the cache.
C16_CacheShortcut == [][ShortcutStep]_vars

C16_Witness ==
    /\ pc = "idle"
    /\ call.op = "download_book"
    /\ ~call.force_redownload
    /\ dlres.status = "returned"
    /\ dlres.from_cache
    /\ io = NoIO
    /\ get_cached_pages(cache, call.ident.book_id) # <<>>

\* the browsing session of the extract_book call could not be established
SessionFailed ==
    /\ call.op = "extract_book"
    /\ dlres.status = "raised"
    /\ dlres.exception = "ConnectionError"

\* C17: when the browsing session cannot be established, extract_book
\* raises an ExtractionError whose operation is the download phase, and
\* the processing phase is not started in that call.
C17_SessionFailureFatal ==
    SessionFailed
    => /\ pc \in {"extract_after_download", "idle"}
       /\ proc = NoProc
       /\ io.remote = {}
       /\ pc = "idle" => /\ out.status = "raised"
                         /\ out.operation = "download phase"

C17_Witness ==
    /\ SessionFailed
    /\ pc = "idle"
    /\ out.status = "raised"
    /\ out.operation = "download phase"
    /\ io.sessions_opened = 0

DownloadingPcs ==
    {"download_start", "download_pages", "download_spa", "download_finish",
     "extract_after_download"}

ProcessingPcs == {"process_begin", "process_pool", "process_finish"}

\* the phase of the orchestrator; START when no extract_book run is under
\* way or ended
Phase ==
    IF call.op # "extract_book" THEN "START"
    ELSE IF pc \in DownloadingPcs THEN "DOWNLOADING"
    ELSE IF pc \in ProcessingPcs THEN "PROCESSING"
    ELSE IF out.status = "returned" THEN "DONE"
    ELSE IF out.status = "raised" THEN "FAILED"
    ELSE "START"

\* the download phase of the run ended without a usable result
FatalDownload ==
    \/ dlres.status = "raised"
    \/ dlres.status = "returned" /\ ~dlres.success /\ ~dlres.from_cache

PhaseInv ==
    call.op = "extract_book"
    => /\ Phase # "START"
       /\ Phase = "DOWNLOADING"
            => ~call.skip_download /\ proc = NoProc /\ out = NoOut
       /\ (Phase = "PROCESSING" \/ proc # NoProc)
            => /\ ~FatalDownload
               /\ IF call.skip_download THEN dlres.status = "none"
                  ELSE dlres.status = "returned"
       /\ Phase = "PROCESSING" => out = NoOut
       /\ FatalDownload => proc = NoProc /\ Phase \in {"DOWNLOADING", "FAILED"}
       /\ Phase = "DONE"
            => /\ proc.cached_pages # <<>>
               /\ \A p \in DOMAIN proc.tasks : proc.tasks[p] = "collected"
               /\ Len(proc.processed_pages) = Len(proc.cached_pages)
               /\ Len(out.pages) = Len(proc.cached_pages)

\* the phase changes a step of one run can make
PhaseStep ==
    (ops' = ops /\ Phase' # Phase)
    => <<Phase, Phase'>> \in { <<"DOWNLOADING", "PROCESSING">>,
                              <<"DOWNLOADING", "FAILED">>,
                              <<"PROCESSING", "DONE">>,
                              <<"PROCESSING", "FAILED">> }

\* C18: every extract_book run goes START -> [DOWNLOADING ->] PROCESSING ->
\* DONE or ends in FAILED: no page is processed before download_book has
\* returned or been skipped, processing does not start after a fatal
\* download failure, and the result is returned only when every submitted
\* page has been processed and collected.
C18_PhaseOrdering == [](PhaseInv) /\ [][PhaseStep]_vars

C18_Witness ==
    /\ Phase = "DONE"
    /\ ~call.skip_download
    /\ dlres.status = "returned"
    /\ ~dlres.from_cache
    /\ Len(out.pages) > 1

\* C19: in a paginated download of N pages the progress callback runs once
\* after each page, N times in all, and its k-th run sees completed = k.
C19_CallbackCadence ==
    (DownloadReturned /\ call.ident.portal_type = "gundert_portal")
    => dl.callbacks = RangeList(1, Len(dl.pages_to_download))

\* the pages of the download results, in the order of the attempts
RECURSIVE AttemptedPages(_)
AttemptedPages(results) ==
    IF results = <<>> THEN <<>>
    ELSE <<Head(results).page_number>> \o AttemptedPages(Tail(results))

\* the navigations one attempt on each of the pages makes, in order
RECURSIVE PageNavs(_)
PageNavs(pages) ==
    IF pages = <<>> THEN <<>>
    ELSE <<(<<Head(pages), "transcript">>), (<<Head(pages), "view">>)>>
         \o PageNavs(Tail(pages))

IsPageNav(n) == n[1] > 0

\* a paginated download has computed its page range
PaginatedLoop ==
    /\ call.ident.portal_type = "gundert_portal"
    /\ dl.pages_to_download # <<>>

\* C20: in a paginated download the pages are attempted one by one in
\* ascending order, each once, and the loop goes on to the last requested
\* page whatever pages fail.
C20_EveryPageAttempted ==
    PaginatedLoop
    => LET done == AttemptedPages(dl.download_results)
       IN /\ dl.pages_to_download
               = RangeList(call.start_page,
                           call.start_page + Len(dl.pages_to_download) - 1)
          /\ Len(done) <= Len(dl.pages_to_download)
          /\ done = SubSeq(dl.pages_to_download, 1, Len(done))
          /\ SelectSeq(io.navs, IsPageNav) = PageNavs(done)
          /\ pc # "download_pages" => done = dl.pages_to_download

C20_Witness ==
    /\ PaginatedLoop
    /\ DownloadReturned
    /\ Len(dl.download_results) > 1
    /\ ~dl.download_results[1].success
    /\ dl.download_results[2].success
    /\ dl.download_results[2].page_number \in
         Range(get_cached_pages(cache, call.ident.book_id))

C25_MethodTagEverywhere ==
    ExtractReturned
    => \A i \in 1..Len(out.pages) :
         out.pages[i].transcript_info.available
         => out.pages[i].transcript_info.extraction_method # ""

\* C26: every document a rendering session loads while a book is processed
\* is a document of that book.
C26_RenderingTargetsBook ==
    \A r \in io.remote : r[1] = call.ident.book_id

\* C30: the page records of a result are in strictly ascending page-number
\* order, so no page number appears twice, whatever the order in which the
\* workers completed.
C30_StrictlyAscending ==
    out.status = "returned"
    => \A i \in 1..Len(out.pages), j \in 1..Len(out.pages) :
         i < j => out.pages[i].page_number < out.pages[j].page_number

C30_Witness ==
    /\ out.status = "returned"
    /\ Len(out.pages) = 2
    /\ out.pages # proc.processed_pages
    /\ out.pages[1].page_number = 1
    /\ out.pages[2].page_number = 2

\* download_book has ended, by a return that is not from the cache or by
\* an exception
DownloadEndedNotFromCache ==
    /\ call.op \in {"download_book", "extract_book"}
    /\ dlres.status # "none"
    /\ ~dlres.from_cache

\* download_book raised before a browsing session existed: the book URL
\* could not be generated or the session could not be established
NoSessionPossible ==
    /\ dlres.status = "raised"
    /\ dlres.exception \in {"ValidationError", "ConnectionError"}

C21_TimeoutFailsPair ==
    \A i \in 1..Len(dl.download_results) :
        LET r == dl.download_results[i]
            late == { t \in Tabs : <<r.page_number, t>> \in dl.timeouts }
        IN /\ \A t \in late : t \notin Range(r.tabs_downloaded)
           /\ late = Tabs => ~r.success

\* process_cached_book has returned
ProcessReturned ==
    /\ pc = "idle"
    /\ call.op = "process_cached_book"
    /\ out.status = "returned"

\* C23: process_cached_book returns exactly one page record for every page
\* of pages_cached; the record of a page whose worker raised has the
\* success flag false and the error set, and the other pages are processed
\* all the same: their records are successful.
C23_WorkerExceptionsBecomeRecords ==
    ProcessReturned
    => LET pages == get_cached_pages(cache, call.ident.book_id)
       IN /\ Len(out.pages) = Len(pages)
          /\ \A p \in Range(pages) :
                Cardinality({ i \in 1..Len(out.pages) :
                                out.pages[i].page_number = p }) = 1
          /\ \A i \in 1..Len(out.pages) :
                LET r == out.pages[i]
                IN /\ r.page_number \in Range(pages)
                   /\ IF r.page_number \in proc.raised
                      THEN ~r.extraction_success /\ r.error # ""
                      ELSE r.extraction_success /\ r.error = ""

C23_Witness ==
    /\ ProcessReturned
    /\ Len(proc.processed_pages) = 2
    /\ proc.processed_pages[1].page_number \in proc.raised
    /\ proc.processed_pages[2].page_number \notin proc.raised
    /\ proc.processed_pages[2].transcript_info.available

\* the simulated navigation for the transcript of page p was attempted
\* and failed: no rendering resource, a timeout or another error
RenderingFailed(p) ==
    /\ p \in DOMAIN proc.rendering
    /\ p \notin proc.raised
    /\ detect_spa_website(load_page_content(cache, call.ident.book_id, p,
                                            "transcript"))
    /\ proc.rendering[p]["transcript"] \in {"unavailable", "failed"}

\* the record is well-formed and its transcript info is the placeholder
\* of the static fallback
StaticFallbackRecord(r) ==
    /\ r.extraction_success
    /\ r.error = ""
    /\ r.transcript_info.available
    /\ r.transcript_info.extraction_method = "spa_static_fallback"
    /\ r.transcript_info.source = "placeholder"

C27_SessionsPrivate ==
    LET n == Len(proc.sessions)
    IN /\ \A i \in 1..n :
             LET s == proc.sessions[i]
             IN /\ s.used_by \subseteq {s.owner}
                /\ s.open => /\ proc.tasks[s.owner] = "running"
                             /\ proc.workers[s.owner].driver = i
                /\ ~s.open => \A p \in DOMAIN proc.workers :
                                 proc.workers[p].driver # i
       /\ \A i \in 1..n, j \in 1..n :
             i # j => <<proc.sessions[i].owner, proc.sessions[i].tab>>
                      # <<proc.sessions[j].owner, proc.sessions[j].tab>>
       /\ \A p \in DOMAIN proc.workers, q \in DOMAIN proc.workers :
             (p # q /\ proc.workers[p].driver # 0)
             => proc.workers[p].driver # proc.workers[q].driver
       /\ \A p \in DOMAIN proc.workers :
             proc.tasks[p] \in {"finished", "collected"}
             => /\ proc.workers[p].driver = 0
                /\ \A i \in 1..n : proc.sessions[i].owner = p
                                     => ~proc.sessions[i].open
       /\ out.status = "returned" => \A i \in 1..n : ~proc.sessions[i].open

\* two pool threads hold a session each at the same time, one of them
\* after a failed extraction
C27_Witness ==
    /\ Len(proc.sessions) = 2
    /\ proc.sessions[1].open
    /\ proc.sessions[2].open
    /\ proc.sessions[1].owner # proc.sessions[2].owner
    /\ \E i \in 1..2 :
         LET s == proc.sessions[i]
         IN /\ s.used_by = {s.owner}
            /\ proc.workers[s.owner].render[s.tab] = "failed"

\* the pages of the run whose record says the extraction failed
FailedRecords ==
    { proc.processed_pages[i].page_number :
        i \in { k \in 1..Len(proc.processed_pages) :
                  ~proc.processed_pages[k].extraction_success } }

\* C34: in every state of a process_cached_book run, a raising progress
\* callback included, 0 <= completed_pages <= total_pages and every page
\* is counted once: completed_pages is the number of collected tasks; when
\* the run has ended completed_pages = total_pages and the failed list of
\* the progress holds exactly the pages whose processing failed, each once.
C34_ProgressWithinBounds ==
    call.op = "process_cached_book"
    => LET pr == proc.progress
           collected == { p \in DOMAIN proc.tasks : proc.tasks[p] = "collected" }
       IN /\ 0 <= pr.completed_pages
          /\ pr.completed_pages <= pr.total_pages
          /\ pr.completed_pages = Cardinality(collected)
          /\ ProcessReturned
               => /\ pr.completed_pages = pr.total_pages
                  /\ Range(pr.failed_pages) = FailedRecords
                  /\ Len(pr.failed_pages) = Cardinality(FailedRecords)

\* a step leaves every blob on disk as it is, unless it clears the book
BlobsKept ==
    \A f \in FilePaths :
        cache.files[f] # NoFile
        => \/ cache'.files[f] = cache.files[f]
           \/ call'.op = "clear_cache" /\ cache'.files[f] = NoFile

\* C29: once a blob is on disk for (book, page, content kind), no
\* operation other than clearing the book's cache changes its content, a
\* download_book with force_redownload = true included.
C29_BlobsImmutable == [][BlobsKept]_vars

\* what the cache answers about book B is the same before and after the step
SameAnswers(B) ==
    /\ is_cached(cache', B) = is_cached(cache, B)
    /\ get_cached_pages(cache', B) = get_cached_pages(cache, B)
    /\ \A p \in Pages, t \in Tabs :
         load_page_content(cache', B, p, t) = load_page_content(cache, B, p, t)

\* a save_page_content, initialize_metadata or clear_cache on book A
\* leaves the answers about every other book as they were
OtherBooksKept ==
    \A A \in AnyBookIds :
        (ops' = ops + 1 /\ call'.ident.book_id = A)
        => \A B \in AnyBookIds \ {A} : SameAnswers(B)

\* C38: for two distinct book ids A and B, no save_page_content,
\* initialize_metadata or clear_cache on A changes what is_cached,
\* load_page_content or get_cached_pages return for B.
C38_BooksIsolated == [][OtherBooksKept]_vars

\* C31: the result of extract_book always records whether the cache was
\* reused, true exactly when the call downloaded no page (served from the
\* cache, or skip_download), and it carries download statistics exactly
\* when the call downloaded.
C31_CacheFlagAndStatistics ==
    ExtractReturned
    => LET reused == call.skip_download \/ dlres.from_cache
       IN /\ out.used_cache = (IF reused THEN "true" ELSE "false")
          /\ out.has_download_statistics = ~reused

\* a list of page numbers in strictly ascending order
StrictlyAscending(s) ==
    \A i \in 1..Len(s), j \in 1..Len(s) : i < j => s[i] < s[j]

\* a step of the processing phase leaves the cache directory as it is
ProcessingKeepsCache ==
    (pc \in ProcessingPcs \/ pc' \in ProcessingPcs) => cache' = cache

\* C32: a process_cached_book call, with failed pages and with fallback
\* extraction as well, changes neither the metadata nor any blob of the
\* cache: no step of it does.
C32_ProcessingReadsOnly == [][ProcessingKeepsCache]_vars

\* a run that returned with a page whose worker raised and a page that
\* went through the static fallback
C32_Witness ==
    /\ ProcessReturned
    /\ proc.raised # {}
    /\ \E p \in DOMAIN proc.rendering : RenderingFailed(p)

\* C33: after any sequence of save_page_content and download_book calls
\* the pages_cached list of every book is strictly ascending, hence
\* without a duplicate page number.
C33_PagesCachedOrdered ==
    \A b \in BookIds : StrictlyAscending(BookMeta(b).pages_cached)

\* page 1 was saved after page 2, under the content kind page 2 was not
\* saved under
C33_Witness ==
    /\ pc = "idle"
    /\ call.op = "save_page_content"
    /\ call.ret
    /\ call.page = 1
    /\ BookMeta(call.ident.book_id).pages_cached = <<1, 2>>

\* a step of download_book that raises before the page loop leaves the
\* metadata of the book as it was
FatalStartKeepsMetadata ==
    (pc = "download_start" /\ dlres'.status = "raised")
    => LET dir == get_book_cache_dir(call.ident.book_id)
       IN cache'.metadata[dir] = cache.metadata[dir]

\* C35: when download_book aborts before any page is fetched (no book URL,
\* no browsing session, no page count), is_cached, pages_cached and the
\* checksums of the book are what they were before the call.
C35_FailedStartKeepsCache == [][FatalStartKeepsMetadata]_vars

\* the pages a download_book call asks for; end_page = None asks for the
\* pages up to the last page of the book
RequestedRange ==
    { p \in Pages : /\ p >= call.start_page
                    /\ (call.end_page = None \/ p <= call.end_page) }

\* C36: download_book answers from_cache = true only if every page of the
\* requested range is listed in pages_cached; a book whose metadata lists
\* no cached page is never served from the cache.
C36_ShortcutCoversRequest ==
    (dlres.status = "returned" /\ dlres.from_cache)
    => LET pcd == get_cached_pages(cache, call.ident.book_id)
       IN /\ pcd # <<>>
          /\ RequestedRange \subseteq Range(pcd)

\* download_book was asked for an empty range, was not served from the
\* cache, had its browsing session, and has ended
EmptyRangeEnded ==
    /\ call.op \in {"download_book", "extract_book"}
    /\ call.end_page # None
    /\ call.start_page > call.end_page
    /\ dlres.status # "none"
    /\ ~dlres.from_cache
    /\ io.sessions_opened = 1

\* C37: download_book with start_page > end_page, not served from the
\* cache, returns with total_pages = 0, no failed page and success rate 0,
\* for paginated and single-page-application sources alike.
C37_EmptyRangeReturns ==
    EmptyRangeEnded
    => /\ dlres.status = "returned"
       /\ dlres.statistics.total_pages = 0
       /\ dlres.statistics.failed_pages = 0
       /\ dlres.statistics.success_rate.num = 0

====
